---- MODULE Spec2Model ----
(***************************************************************************)
(* The C API layer of voicevox_core (crates/voicevox_core_c_api/src/lib.rs) *)
(* as a state machine: caller threads enter the extern "C" entry points,   *)
(* which take the engine guard INTERNAL, run one engine operation, and hand *)
(* result buffers to the caller through the address-keyed registry          *)
(* INTERNAL_BUFFER_VEC_LENGTH.                                              *)
(***************************************************************************)
EXTENDS Integers, Sequences, FiniteSets, TLC

\* ------------------------------------------------------------------ bounds
NumAddrs == 2
MaxLen == 1
MaxSlack == 1

\* Two concurrent caller threads.
Threads == {1, 2}
None == 0

\* Heap addresses the allocator can hand out; all are multiples of 16, so
\* none equals a dangling pointer (the alignment of the element type).
HeapAddrs == {16 * k : k \in 1..NumAddrs}
Elems == {0, 1}

\* NonNull::dangling() of an empty Vec<T>: the alignment of T.
Dangling(ty) == IF ty = "f32" THEN 4 ELSE 1
AllAddrs == HeapAddrs \cup {Dangling("f32"), Dangling("u8")}

RECURSIVE SeqsUpTo(_)
SeqsUpTo(n) ==
  IF n = 0 THEN {<<>>}
  ELSE LET S == SeqsUpTo(n - 1)
       IN S \cup {Append(s, e) : s \in {x \in S : Len(x) = n - 1}, e \in Elems}

\* ------------------------------------------------------------ entry points
ArrayOps == {"predict_duration", "predict_intonation", "decode", "tts"}
WavOps == {"tts", "synthesis"}
CodeOps == {"initialize", "load_model"}
ValueOps == {"is_gpu_mode", "is_model_loaded", "finalize", "get_metas_json",
             "get_supported_devices_json"}
EngineOps == ArrayOps \cup CodeOps \cup ValueOps \cup {"audio_query", "synthesis"}
FreeOps == {"predict_duration_data_free", "predict_intonation_data_free",
            "decode_data_free", "wav_free"}
\* Entry points whose call allocates a heap block that outlives the call.
AllocOps == ArrayOps \cup {"synthesis", "audio_query"}

ElemType(op) == IF op \in WavOps \/ op = "wav_free" THEN "u8" ELSE "f32"

VARIABLES
  internalHolder,   \* thread holding the MutexGuard of INTERNAL, or None
  registry,         \* INTERNAL_BUFFER_VEC_LENGTH: address -> length
  regHolder,        \* thread holding the registry mutex, or None
  regPoisoned,      \* whether the registry mutex is poisoned
  heap,             \* the allocator: address -> block
  pc,               \* per thread: position inside the current call
  op,               \* per thread: the entry point being executed
  text,             \* per thread: bytes of the text argument (CStr contents)
  vec,              \* per thread: the Vec in hand, [ptr, len, cap]
  size,             \* per thread: `size` of leak_vec_and_store_length
  orig,             \* per thread: contents of the buffer the engine returned
  freeing,          \* per thread: the buffer passed to the free function
  outData, outLen,  \* per thread: the caller's output slots
  result,           \* per thread: the closure's Result (or the argument)
  ret,              \* per thread: the value the entry point returns
  held,             \* per thread: registry-tracked buffers the caller owns
  heldJson,         \* per thread: audio-query json buffers the caller owns
  panic,            \* per thread: the panic that ended its call, or "none"
  aborted           \* whether a panic has terminated the process

locks == <<internalHolder, regHolder, regPoisoned>>
locals == <<text, vec, size, orig, freeing, outData, outLen>>
vars == <<internalHolder, registry, regHolder, regPoisoned, heap,
          pc, op, text, vec, size, orig, freeing, outData, outLen, result, ret,
          held, heldJson, panic, aborted>>

\* ------------------------------------------------------------ error mapper
EngineErrors == {"NotLoadedOpenjtalkDict", "LoadModel", "GetSupportedDevices",
                 "Uncategorized"}
CApiErrors == {"InvalidUtf8Input", "InvalidAudioQuery"}
ErrorVariants == EngineErrors \cup CApiErrors

\* Faulty variant: a model-load failure is reported as success.
into_result_code_fail_open(r) ==
  CASE r = "Ok" -> "VOICEVOX_RESULT_OK"
    [] r = "NotLoadedOpenjtalkDict" -> "VOICEVOX_RESULT_NOT_LOADED_OPENJTALK_DICT_ERROR"
    [] r = "LoadModel" -> "VOICEVOX_RESULT_OK"
    [] r = "GetSupportedDevices" -> "VOICEVOX_RESULT_GET_SUPPORTED_DEVICES_ERROR"
    [] r = "InvalidUtf8Input" -> "VOICEVOX_RESULT_INVALID_UTF8_INPUT_ERROR"
    [] r = "InvalidAudioQuery" -> "VOICEVOX_RESULT_INVALID_AUDIO_QUERY_ERROR"
    [] OTHER -> "VOICEVOX_RESULT_UNKNOWN_ERROR"

into_result_code_with_error(r) ==
  CASE r = "Ok" -> "VOICEVOX_RESULT_OK"
    [] r = "NotLoadedOpenjtalkDict" -> "VOICEVOX_RESULT_NOT_LOADED_OPENJTALK_DICT_ERROR"
    [] r = "LoadModel" -> "VOICEVOX_RESULT_LOAD_MODEL_ERROR"
    [] r = "GetSupportedDevices" -> "VOICEVOX_RESULT_GET_SUPPORTED_DEVICES_ERROR"
    [] r = "InvalidUtf8Input" -> "VOICEVOX_RESULT_INVALID_UTF8_INPUT_ERROR"
    [] r = "InvalidAudioQuery" -> "VOICEVOX_RESULT_INVALID_AUDIO_QUERY_ERROR"
    [] OTHER -> "VOICEVOX_RESULT_UNKNOWN_ERROR"

ResultCodes == {into_result_code_with_error(r) : r \in ErrorVariants \cup {"Ok"}}

\* The static message of a result code; "" stands for "no message".
error_result_to_message(code) ==
  CASE code = "VOICEVOX_RESULT_OK" -> "ok"
    [] code = "VOICEVOX_RESULT_NOT_LOADED_OPENJTALK_DICT_ERROR" -> "openjtalk dict not loaded"
    [] code = "VOICEVOX_RESULT_LOAD_MODEL_ERROR" -> "failed to load model"
    [] code = "VOICEVOX_RESULT_GET_SUPPORTED_DEVICES_ERROR" -> "failed to get supported devices"
    [] code = "VOICEVOX_RESULT_INVALID_UTF8_INPUT_ERROR" -> "input is not valid utf-8"
    [] code = "VOICEVOX_RESULT_INVALID_AUDIO_QUERY_ERROR" -> "invalid audio query"
    [] code = "VOICEVOX_RESULT_UNKNOWN_ERROR" -> "unknown error"
    [] OTHER -> ""

\* --------------------------------------------------------- text validation
\* CStr::to_str: the bytes before the terminating NUL must be valid UTF-8.
RECURSIVE IsValidUtf8(_)
IsValidUtf8(b) ==
  IF b = <<>> THEN TRUE
  ELSE LET n == Len(b)
           b0 == b[1]
           Cont(i) == i <= n /\ b[i] >= 128 /\ b[i] <= 191
       IN IF b0 <= 127 THEN IsValidUtf8(Tail(b))
          ELSE IF b0 >= 194 /\ b0 <= 223
            THEN Cont(2) /\ IsValidUtf8(SubSeq(b, 3, n))
          ELSE IF b0 >= 224 /\ b0 <= 239
            THEN /\ Cont(2) /\ Cont(3)
                 /\ (b0 = 224 => b[2] >= 160)
                 /\ (b0 = 237 => b[2] <= 159)
                 /\ IsValidUtf8(SubSeq(b, 4, n))
          ELSE IF b0 >= 240 /\ b0 <= 244
            THEN /\ Cont(2) /\ Cont(3) /\ Cont(4)
                 /\ (b0 = 240 => b[2] >= 144)
                 /\ (b0 = 244 => b[2] <= 143)
                 /\ IsValidUtf8(SubSeq(b, 5, n))
          ELSE FALSE

\* Text arguments a caller passes: "a", U+00E9, a lone 0xFF, a truncated
\* two-byte sequence.
Texts == {<<97>>, <<195, 169>>, <<255>>, <<195>>}
NoText == <<>>

\* ------------------------------------------------------------------ state
Unwritten == -1
FreeBlock == [kind |-> "free", cap |-> 0, data |-> <<>>]
NoVec == [ptr |-> 0, len |-> 0, cap |-> 0]
NoBuffer == [ptr |-> 0, len |-> 0, data |-> <<>>, ty |-> "none"]

FreeAddrs == {a \in HeapAddrs : heap[a].kind = "free"}
UsedAddrs == HeapAddrs \ FreeAddrs

\* HashMap<usize, usize>::insert and ::remove.
HashMapInsert(m, k, v) == [x \in DOMAIN m \cup {k} |-> IF x = k THEN v ELSE m[x]]
\* Faulty variant: the removal empties the table.
HashMapClear(m, k) == [x \in {} |-> 0]
HashMapRemove(m, k) == [x \in DOMAIN m \ {k} |-> m[x]]

\* The contents a Vec [ptr, len, cap] reads from its allocation.
VecData(v) ==
  IF v.ptr \in HeapAddrs
  THEN LET d == heap[v.ptr].data
       IN SubSeq(d, 1, IF v.len < Len(d) THEN v.len ELSE Len(d))
  ELSE <<>>

Init ==
  /\ internalHolder = None
  /\ registry = [x \in {} |-> 0]
  /\ regHolder = None
  /\ regPoisoned = FALSE
  /\ heap = [a \in HeapAddrs |-> FreeBlock]
  /\ pc = [t \in Threads |-> "idle"]
  /\ op = [t \in Threads |-> "none"]
  /\ text = [t \in Threads |-> NoText]
  /\ vec = [t \in Threads |-> NoVec]
  /\ size = [t \in Threads |-> 0]
  /\ orig = [t \in Threads |-> <<>>]
  /\ freeing = [t \in Threads |-> NoBuffer]
  /\ outData = [t \in Threads |-> Unwritten]
  /\ outLen = [t \in Threads |-> Unwritten]
  /\ result = [t \in Threads |-> "none"]
  /\ ret = [t \in Threads |-> "none"]
  /\ held = [t \in Threads |-> {}]
  /\ heldJson = [t \in Threads |-> {}]
  /\ panic = [t \in Threads |-> "none"]
  /\ aborted = FALSE

\* Faulty variant: the closure's error is dropped and success is reported.
ReturnValueIgnoresError(o, r) ==
  IF o \in ValueOps \cup FreeOps \cup {"audio_query_json_free"} THEN r
  ELSE "VOICEVOX_RESULT_OK"

\* The value an entry point returns for the closure result r.
ReturnValue(o, r) ==
  IF o \in ValueOps \cup FreeOps \cup {"audio_query_json_free"} THEN r
  ELSE into_result_code_with_error(r)

\* The entry point of thread t finishes its body with result r.
Finish(t, o, r) ==
  /\ pc' = [pc EXCEPT ![t] = "ret"]
  /\ result' = [result EXCEPT ![t] = r]
  /\ ret' = [ret EXCEPT ![t] = ReturnValue(o, r)]

Idle(t) == pc[t] = "idle" /\ ~aborted

\* A call that will allocate is made only while the allocator has room for
\* it (blocks in use plus calls that have not allocated yet stay below
\* NumAddrs), and a caller releases the buffer it owns before it asks for
\* another one.
Reserved == {u \in Threads : op[u] \in AllocOps /\ pc[u] \in {"lock", "engine", "write_json"}}
CanReserve(t) ==
  /\ Cardinality(UsedAddrs) + Cardinality(Reserved) < NumAddrs
  /\ held[t] = {} /\ heldJson[t] = {}

\* An entry point whose body starts with lock_internal().
EnterEngine(t, o) ==
  /\ Idle(t)
  /\ o \in AllocOps => CanReserve(t)
  /\ op' = [op EXCEPT ![t] = o]
  /\ pc' = [pc EXCEPT ![t] = "lock"]
  /\ UNCHANGED <<locks, registry, heap, locals, result, ret, held, heldJson, panic, aborted>>

\* An entry point whose body first validates a text argument: an invalid
\* argument ends the closure with error e before lock_internal().
EnterText(t, o, txt, e) ==
  /\ Idle(t)
  /\ o \in AllocOps => CanReserve(t)
  /\ op' = [op EXCEPT ![t] = o]
  /\ text' = [text EXCEPT ![t] = txt]
  /\ IF e = "Ok"
     THEN /\ pc' = [pc EXCEPT ![t] = "lock"]
          /\ UNCHANGED <<result, ret>>
     ELSE Finish(t, o, e)
  /\ UNCHANGED <<locks, registry, heap, vec, size, orig, freeing, outData, outLen,
                 held, heldJson, panic, aborted>>

\* options.try_into_options() reads the dictionary directory as UTF-8.
voicevox_initialize(t) ==
  \E dir \in Texts :
    EnterText(t, "initialize", dir, IF IsValidUtf8(dir) THEN "Ok" ELSE "InvalidUtf8Input")
voicevox_load_model(t) == EnterEngine(t, "load_model")
voicevox_is_gpu_mode(t) == EnterEngine(t, "is_gpu_mode")
voicevox_is_model_loaded(t) == EnterEngine(t, "is_model_loaded")
voicevox_finalize(t) == EnterEngine(t, "finalize")
voicevox_get_metas_json(t) == EnterEngine(t, "get_metas_json")
voicevox_get_supported_devices_json(t) == EnterEngine(t, "get_supported_devices_json")
voicevox_predict_duration(t) == EnterEngine(t, "predict_duration")
voicevox_predict_intonation(t) == EnterEngine(t, "predict_intonation")
voicevox_decode(t) == EnterEngine(t, "decode")

\* Faulty variant: the json is parsed without the UTF-8 check of to_str.
voicevox_synthesis_unchecked(t) ==
  \E txt \in Texts, jsonOk \in BOOLEAN :
    EnterText(t, "synthesis", txt, IF ~jsonOk THEN "InvalidAudioQuery" ELSE "Ok")

\* ensure_utf8 of the text argument.
ensure_utf8(txt) == IF IsValidUtf8(txt) THEN "Ok" ELSE "InvalidUtf8Input"

voicevox_audio_query(t) ==
  \E txt \in Texts : EnterText(t, "audio_query", txt, ensure_utf8(txt))

\* CStr::to_str, then serde_json::from_str, then lock_internal().
voicevox_synthesis(t) ==
  \E txt \in Texts, jsonOk \in BOOLEAN :
    EnterText(t, "synthesis", txt,
              IF ~IsValidUtf8(txt) THEN "InvalidUtf8Input"
              ELSE IF ~jsonOk THEN "InvalidAudioQuery" ELSE "Ok")

voicevox_tts(t) ==
  \E txt \in Texts : EnterText(t, "tts", txt, ensure_utf8(txt))

voicevox_error_result_to_message(t) ==
  /\ Idle(t)
  /\ \E code \in ResultCodes :
       /\ op' = [op EXCEPT ![t] = "error_result_to_message"]
       /\ pc' = [pc EXCEPT ![t] = "ret"]
       /\ result' = [result EXCEPT ![t] = code]
       /\ ret' = [ret EXCEPT ![t] = error_result_to_message(code)]
  /\ UNCHANGED <<locks, registry, heap, locals, held, heldJson, panic, aborted>>

\* ------------------------------------------------------------ engine guard
\* Faulty variant: the guard is taken without waiting for its holder.
lock_internal_no_wait(t) ==
  /\ pc[t] = "lock" /\ ~aborted
  /\ internalHolder' = t
  /\ pc' = [pc EXCEPT ![t] = "engine"]
  /\ UNCHANGED <<registry, regHolder, regPoisoned, heap, op, locals, result, ret,
                 held, heldJson, panic, aborted>>

\* INTERNAL.lock().unwrap(): blocks until no thread holds the guard.
lock_internal(t) ==
  /\ pc[t] = "lock" /\ ~aborted
  /\ internalHolder = None
  /\ internalHolder' = t
  /\ pc' = [pc EXCEPT ![t] = "engine"]
  /\ UNCHANGED <<registry, regHolder, regPoisoned, heap, op, locals, result, ret,
                 held, heldJson, panic, aborted>>

\* Faulty variant: the guard outlives the statement when the engine succeeds.
DropGuardAfterRegistration(t, r) == IF r \in EngineErrors THEN None ELSE t

\* Faulty variant: the guard is kept when `?` returns early with an error.
DropGuardOnSuccessOnly(t, r) == IF r \in EngineErrors THEN t ELSE None

\* The temporary MutexGuard is dropped at the end of the statement that
\* called lock_internal(), whether the statement completes or `?` returns.
DropGuard(t, r) == None

\* The engine operation of initialize and load_model: a Result<()>.
EngineResultOp(t) ==
  /\ pc[t] = "engine" /\ ~aborted /\ op[t] \in CodeOps
  /\ \E r \in EngineErrors \cup {"Ok"} :
       /\ internalHolder' = DropGuard(t, r)
       /\ Finish(t, op[t], r)
  /\ text' = [text EXCEPT ![t] = NoText]
  /\ UNCHANGED <<registry, regHolder, regPoisoned, heap, op, vec, size, orig, freeing,
                 outData, outLen, held, heldJson, panic, aborted>>

\* Faulty variant: finalize also empties the registry.
EngineValueOpClearsRegistry(t) ==
  /\ pc[t] = "engine" /\ ~aborted /\ op[t] \in ValueOps
  /\ \E r \in (CASE op[t] \in {"is_gpu_mode", "is_model_loaded"} -> {"true", "false"}
                 [] op[t] = "finalize" -> {"void"}
                 [] OTHER -> {"static_json"}) :
       /\ internalHolder' = DropGuard(t, r)
       /\ Finish(t, op[t], r)
  /\ registry' = IF op[t] = "finalize" THEN [x \in {} |-> 0] ELSE registry
  /\ text' = [text EXCEPT ![t] = NoText]
  /\ UNCHANGED <<regHolder, regPoisoned, heap, op, vec, size, orig, freeing,
                 outData, outLen, held, heldJson, panic, aborted>>

\* The engine operation of the infallible accessors and of finalize.
EngineValueOp(t) ==
  /\ pc[t] = "engine" /\ ~aborted /\ op[t] \in ValueOps
  /\ \E r \in (CASE op[t] \in {"is_gpu_mode", "is_model_loaded"} -> {"true", "false"}
                 [] op[t] = "finalize" -> {"void"}
                 [] OTHER -> {"static_json"}) :
       /\ internalHolder' = DropGuard(t, r)
       /\ Finish(t, op[t], r)
  /\ text' = [text EXCEPT ![t] = NoText]
  /\ UNCHANGED <<registry, regHolder, regPoisoned, heap, op, vec, size, orig, freeing,
                 outData, outLen, held, heldJson, panic, aborted>>

\* The engine operation of predict_duration, predict_intonation, decode, tts
\* and synthesis: an error, or a freshly allocated Vec of any length and
\* any spare capacity up to MaxSlack.
EngineArrayOp(t) ==
  /\ pc[t] = "engine" /\ ~aborted /\ op[t] \in ArrayOps \cup {"synthesis"}
  /\ \/ \E e \in EngineErrors :
          /\ internalHolder' = DropGuard(t, e)
          /\ Finish(t, op[t], e)
          /\ UNCHANGED <<heap, vec, orig>>
     \/ \E data \in SeqsUpTo(MaxLen), slack \in 0..MaxSlack :
          LET cap == Len(data) + slack IN
          /\ internalHolder' = DropGuard(t, "Ok")
          /\ orig' = [orig EXCEPT ![t] = data]
          /\ pc' = [pc EXCEPT ![t] = IF op[t] = "synthesis" THEN "write_wav" ELSE "leak"]
          /\ IF cap = 0
             THEN /\ vec' = [vec EXCEPT ![t] =
                              [ptr |-> Dangling(ElemType(op[t])), len |-> 0, cap |-> 0]]
                  /\ heap' = heap
             ELSE \E a \in FreeAddrs :
                    /\ heap' = [heap EXCEPT ![a] =
                                 [kind |-> "rust", cap |-> cap, data |-> data]]
                    /\ vec' = [vec EXCEPT ![t] =
                                [ptr |-> a, len |-> Len(data), cap |-> cap]]
          /\ UNCHANGED <<result, ret>>
  /\ text' = [text EXCEPT ![t] = NoText]
  /\ UNCHANGED <<registry, regHolder, regPoisoned, op, size, freeing,
                 outData, outLen, held, heldJson, panic, aborted>>

\* The engine operation of audio_query inside create_audio_query.
EngineAudioQuery(t) ==
  /\ pc[t] = "engine" /\ ~aborted /\ op[t] = "audio_query"
  /\ \/ \E e \in EngineErrors :
          /\ internalHolder' = DropGuard(t, e)
          /\ Finish(t, op[t], e)
     \/ /\ internalHolder' = DropGuard(t, "Ok")
        /\ pc' = [pc EXCEPT ![t] = "write_json"]
        /\ UNCHANGED <<result, ret>>
  /\ text' = [text EXCEPT ![t] = NoText]
  /\ UNCHANGED <<registry, regHolder, regPoisoned, heap, op, vec, size, orig, freeing,
                 outData, outLen, held, heldJson, panic, aborted>>

\* write_json_to_ptr: the json text is copied to a freshly allocated,
\* null-terminated buffer whose address goes to the output slot.
write_json_to_ptr(t) ==
  /\ pc[t] = "write_json" /\ ~aborted
  /\ \E a \in FreeAddrs :
       /\ heap' = [heap EXCEPT ![a] = [kind |-> "malloc", cap |-> 1, data |-> <<>>]]
       /\ outData' = [outData EXCEPT ![t] = a]
  /\ Finish(t, op[t], "Ok")
  /\ UNCHANGED <<locks, registry, op, text, vec, size, orig, freeing, outLen,
                 held, heldJson, panic, aborted>>

\* Faulty variant: the wav buffer is handed out without being registered.
write_wav_to_ptr_unregistered(t) ==
  /\ pc[t] = "write_wav" /\ ~aborted
  /\ outData' = [outData EXCEPT ![t] = vec[t].ptr]
  /\ outLen' = [outLen EXCEPT ![t] = vec[t].len]
  /\ Finish(t, op[t], "Ok")
  /\ UNCHANGED <<locks, registry, heap, op, text, vec, size, orig, freeing,
                 held, heldJson, panic, aborted>>

\* write_wav_to_ptr: the wav bytes are handed to the registry (the steps of
\* leak_vec_and_store_length follow) and the registered address and length
\* go to the output slots.
write_wav_to_ptr(t) ==
  /\ pc[t] = "write_wav" /\ ~aborted
  /\ pc' = [pc EXCEPT ![t] = "leak"]
  /\ UNCHANGED <<locks, registry, heap, op, locals, result, ret,
                 held, heldJson, panic, aborted>>

\* ------------------------------------------------------------ the registry
\* A panic inside an extern "C" function: the process aborts, or the
\* unwinding leaves the call without a return value.
Panics(t, kind) ==
  /\ pc' = [pc EXCEPT ![t] = "panicked"]
  /\ panic' = [panic EXCEPT ![t] = kind]

\* Faulty variant: the capacity is recorded instead of the length.
LeakSizeCapacity(v) == v.cap

\* `let size = vec.len()`.
LeakSize(v) == v.len

\* leak_vec_and_store_length, lines 52-55: size, shrink_to_fit, leak.
\* shrink_to_fit frees the allocation of an empty Vec, and otherwise
\* reallocates to the exact length, in place or at another address.
LeakShrink(t) ==
  /\ pc[t] = "leak" /\ ~aborted
  /\ size' = [size EXCEPT ![t] = LeakSize(vec[t])]
  /\ LET v == vec[t] IN
     IF v.cap = v.len
     THEN UNCHANGED <<vec, heap>>
     ELSE IF v.len = 0
     THEN /\ heap' = [heap EXCEPT ![v.ptr] = FreeBlock]
          /\ vec' = [vec EXCEPT ![t] =
                      [ptr |-> Dangling(ElemType(op[t])), len |-> 0, cap |-> 0]]
     ELSE \E a \in FreeAddrs \cup {v.ptr} :
            /\ heap' = [heap EXCEPT ![v.ptr] = FreeBlock,
                                    ![a] = [kind |-> "rust", cap |-> v.len,
                                            data |-> SubSeq(heap[v.ptr].data, 1, v.len)]]
            /\ vec' = [vec EXCEPT ![t] = [ptr |-> a, len |-> v.len, cap |-> v.len]]
  /\ pc' = [pc EXCEPT ![t] = "leak_lock"]
  /\ UNCHANGED <<locks, registry, op, text, orig, freeing, outData, outLen,
                 result, ret, held, heldJson, panic, aborted>>

\* INTERNAL_BUFFER_VEC_LENGTH.lock().unwrap(): blocks until the mutex is
\* free; a poisoned mutex makes unwrap panic and the guard is dropped.
RegistryLock(t, from, to) ==
  /\ pc[t] = from /\ ~aborted
  /\ regHolder = None
  /\ IF regPoisoned
     THEN /\ Panics(t, "poisoned")
          /\ \E ab \in BOOLEAN : aborted' = ab
          /\ UNCHANGED regHolder
     ELSE /\ regHolder' = t
          /\ pc' = [pc EXCEPT ![t] = to]
          /\ UNCHANGED <<panic, aborted>>
  /\ UNCHANGED <<internalHolder, regPoisoned, registry, heap, op, locals, result, ret,
                 held, heldJson>>

LeakLock(t) == RegistryLock(t, "leak_lock", "leak_insert")

\* Faulty variant: the registry guard is not dropped after the insertion.
LeakInsertKeepsLock(t) ==
  /\ pc[t] = "leak_insert" /\ ~aborted
  /\ LET addr == vec[t].ptr
         not_occupied == addr \notin DOMAIN registry
     IN /\ registry' = HashMapInsert(registry, addr, size[t])
        /\ regHolder' = t
        /\ IF not_occupied
           THEN /\ outData' = [outData EXCEPT ![t] = addr]
                /\ outLen' = [outLen EXCEPT ![t] = size[t]]
                /\ Finish(t, op[t], "Ok")
                /\ UNCHANGED <<panic, aborted>>
           ELSE /\ Panics(t, "duplicate")
                /\ \E ab \in BOOLEAN : aborted' = ab
                /\ UNCHANGED <<outData, outLen, result, ret>>
  /\ UNCHANGED <<internalHolder, regPoisoned, heap, op, text, vec, size, orig, freeing,
                 held, heldJson>>

\* leak_vec_and_store_length, lines 57-65, and the writes to the output
\* slots that follow it in the entry point.
LeakInsert(t) ==
  /\ pc[t] = "leak_insert" /\ ~aborted
  /\ LET addr == vec[t].ptr
         not_occupied == addr \notin DOMAIN registry
     IN /\ registry' = HashMapInsert(registry, addr, size[t])
        /\ regHolder' = None
        /\ IF not_occupied
           THEN /\ outData' = [outData EXCEPT ![t] = addr]
                /\ outLen' = [outLen EXCEPT ![t] = size[t]]
                /\ Finish(t, op[t], "Ok")
                /\ UNCHANGED <<panic, aborted>>
           ELSE /\ Panics(t, "duplicate")
                /\ \E ab \in BOOLEAN : aborted' = ab
                /\ UNCHANGED <<outData, outLen, result, ret>>
  /\ UNCHANGED <<internalHolder, regPoisoned, heap, op, text, vec, size, orig, freeing,
                 held, heldJson>>

\* Faulty variant: the free function takes the engine guard first.
EnterFreeThroughEngine(t, f) ==
  /\ Idle(t)
  /\ \E h \in held[t] :
       /\ h.ty = ElemType(f)
       /\ freeing' = [freeing EXCEPT ![t] = h]
       /\ held' = [held EXCEPT ![t] = @ \ {h}]
  /\ op' = [op EXCEPT ![t] = f]
  /\ pc' = [pc EXCEPT ![t] = "lock"]
  /\ UNCHANGED <<locks, registry, heap, text, vec, size, orig, outData, outLen,
                 result, ret, heldJson, panic, aborted>>

\* A registry free function is called on a buffer the caller owns, of the
\* element type the function frees.
EnterFree(t, f) ==
  /\ Idle(t)
  /\ \E h \in held[t] :
       /\ h.ty = ElemType(f)
       /\ freeing' = [freeing EXCEPT ![t] = h]
       /\ held' = [held EXCEPT ![t] = @ \ {h}]
  /\ op' = [op EXCEPT ![t] = f]
  /\ pc' = [pc EXCEPT ![t] = "restore_lock"]
  /\ UNCHANGED <<locks, registry, heap, text, vec, size, orig, outData, outLen,
                 result, ret, heldJson, panic, aborted>>

voicevox_predict_duration_data_free(t) == EnterFree(t, "predict_duration_data_free")
voicevox_predict_intonation_data_free(t) == EnterFree(t, "predict_intonation_data_free")
voicevox_decode_data_free(t) == EnterFree(t, "decode_data_free")
voicevox_wav_free(t) == EnterFree(t, "wav_free")

\* Faulty variant: the allocation is released before its entry is removed.
RestoreLockAfterRelease(t) ==
  /\ pc[t] = "restore_lock" /\ ~aborted
  /\ regHolder = None /\ ~regPoisoned
  /\ regHolder' = t
  /\ heap' = IF freeing[t].ptr \in HeapAddrs
             THEN [heap EXCEPT ![freeing[t].ptr] = FreeBlock] ELSE heap
  /\ pc' = [pc EXCEPT ![t] = "restore_remove"]
  /\ UNCHANGED <<internalHolder, regPoisoned, registry, op, locals, result, ret,
                 held, heldJson, panic, aborted>>

RestoreLock(t) == RegistryLock(t, "restore_lock", "restore_remove")

\* Faulty variant: a missing entry is taken as length 0 instead of panicking.
RestoreRemoveLenient(t) ==
  /\ pc[t] = "restore_remove" /\ ~aborted
  /\ LET addr == freeing[t].ptr
         n == IF addr \in DOMAIN registry THEN registry[addr] ELSE 0
     IN /\ registry' = HashMapRemove(registry, addr)
        /\ vec' = [vec EXCEPT ![t] = [ptr |-> addr, len |-> n, cap |-> n]]
  /\ pc' = [pc EXCEPT ![t] = "restored"]
  /\ regHolder' = None
  /\ UNCHANGED <<internalHolder, regPoisoned, heap, op, text, size, orig, freeing,
                 outData, outLen, result, ret, held, heldJson, panic, aborted>>

\* restore_vec, lines 72-78: remove the entry or panic, then
\* Vec::from_raw_parts(ptr, size, size).  The expect panics while the
\* MutexGuard is alive, so unwinding poisons the registry mutex.
RestoreRemove(t) ==
  /\ pc[t] = "restore_remove" /\ ~aborted
  /\ LET addr == freeing[t].ptr IN
     IF addr \in DOMAIN registry
     THEN /\ registry' = HashMapRemove(registry, addr)
          /\ vec' = [vec EXCEPT ![t] =
                      [ptr |-> addr, len |-> registry[addr], cap |-> registry[addr]]]
          /\ pc' = [pc EXCEPT ![t] = "restored"]
          /\ UNCHANGED <<regPoisoned, panic, aborted>>
     ELSE /\ Panics(t, "unmanaged")
          /\ \E ab \in BOOLEAN : aborted' = ab /\ regPoisoned' = ~ab
          /\ UNCHANGED <<registry, vec>>
  /\ regHolder' = None
  /\ UNCHANGED <<internalHolder, heap, op, text, size, orig, freeing, outData, outLen,
                 result, ret, held, heldJson>>

\* drop(restore_vec(..)): the rebuilt Vec releases its allocation.
DropVec(t) ==
  /\ pc[t] = "restored" /\ ~aborted
  /\ heap' = IF vec[t].ptr \in HeapAddrs /\ vec[t].cap > 0
             THEN [heap EXCEPT ![vec[t].ptr] = FreeBlock] ELSE heap
  /\ Finish(t, op[t], "void")
  /\ UNCHANGED <<locks, registry, op, locals, held, heldJson, panic, aborted>>

\* Faulty variant: the json buffer is released through the registry.
voicevox_audio_query_json_free_via_registry(t) ==
  /\ Idle(t)
  /\ \E a \in heldJson[t] :
       /\ freeing' = [freeing EXCEPT ![t] = [NoBuffer EXCEPT !.ptr = a]]
       /\ heldJson' = [heldJson EXCEPT ![t] = @ \ {a}]
  /\ op' = [op EXCEPT ![t] = "audio_query_json_free"]
  /\ pc' = [pc EXCEPT ![t] = "restore_lock"]
  /\ UNCHANGED <<locks, registry, heap, text, vec, size, orig, outData, outLen,
                 result, ret, held, panic, aborted>>

\* libc::free of a json buffer the caller owns.
voicevox_audio_query_json_free(t) ==
  /\ Idle(t)
  /\ \E a \in heldJson[t] :
       /\ heap' = [heap EXCEPT ![a] = FreeBlock]
       /\ heldJson' = [heldJson EXCEPT ![t] = @ \ {a}]
  /\ op' = [op EXCEPT ![t] = "audio_query_json_free"]
  /\ Finish(t, "audio_query_json_free", "void")
  /\ UNCHANGED <<locks, registry, locals, held, panic, aborted>>

\* The entry point returns: the caller now owns what the output slots name.
Return(t) ==
  /\ pc[t] = "ret" /\ ~aborted
  /\ held' = IF op[t] \in ArrayOps \cup {"synthesis"} /\ result[t] = "Ok"
             THEN [held EXCEPT ![t] = @ \cup {[ptr |-> outData[t], len |-> outLen[t],
                                               data |-> orig[t], ty |-> ElemType(op[t])]}]
             ELSE held
  /\ heldJson' = IF op[t] = "audio_query" /\ result[t] = "Ok"
                 THEN [heldJson EXCEPT ![t] = @ \cup {outData[t]}]
                 ELSE heldJson
  /\ pc' = [pc EXCEPT ![t] = "idle"]
  /\ op' = [op EXCEPT ![t] = "none"]
  /\ text' = [text EXCEPT ![t] = NoText]
  /\ vec' = [vec EXCEPT ![t] = NoVec]
  /\ size' = [size EXCEPT ![t] = 0]
  /\ orig' = [orig EXCEPT ![t] = <<>>]
  /\ freeing' = [freeing EXCEPT ![t] = NoBuffer]
  /\ outData' = [outData EXCEPT ![t] = Unwritten]
  /\ outLen' = [outLen EXCEPT ![t] = Unwritten]
  /\ result' = [result EXCEPT ![t] = "none"]
  /\ ret' = [ret EXCEPT ![t] = "none"]
  /\ UNCHANGED <<locks, registry, heap, panic, aborted>>

\* A caller that breaks the ownership contract: a registry free function on
\* any address, registered or not, owned or not.
MisuseFree(t) ==
  /\ Idle(t)
  /\ \E f \in FreeOps, a \in AllAddrs :
       /\ op' = [op EXCEPT ![t] = f]
       /\ freeing' = [freeing EXCEPT ![t] = [NoBuffer EXCEPT !.ptr = a]]
  /\ pc' = [pc EXCEPT ![t] = "restore_lock"]
  /\ UNCHANGED <<locks, registry, heap, text, vec, size, orig, outData, outLen,
                 result, ret, held, heldJson, panic, aborted>>

Next ==
  \E t \in Threads :
    \/ voicevox_initialize(t)
    \/ voicevox_load_model(t)
    \/ voicevox_is_gpu_mode(t)
    \/ voicevox_is_model_loaded(t)
    \/ voicevox_finalize(t)
    \/ voicevox_get_metas_json(t)
    \/ voicevox_get_supported_devices_json(t)
    \/ voicevox_predict_duration(t)
    \/ voicevox_predict_intonation(t)
    \/ voicevox_decode(t)
    \/ voicevox_audio_query(t)
    \/ voicevox_synthesis(t)
    \/ voicevox_tts(t)
    \/ voicevox_error_result_to_message(t)
    \/ voicevox_predict_duration_data_free(t)
    \/ voicevox_predict_intonation_data_free(t)
    \/ voicevox_decode_data_free(t)
    \/ voicevox_wav_free(t)
    \/ voicevox_audio_query_json_free(t)
    \/ lock_internal(t)
    \/ EngineResultOp(t)
    \/ EngineValueOp(t)
    \/ EngineArrayOp(t)
    \/ EngineAudioQuery(t)
    \/ write_json_to_ptr(t)
    \/ write_wav_to_ptr(t)
    \/ LeakShrink(t)
    \/ LeakLock(t)
    \/ LeakInsert(t)
    \/ RestoreLock(t)
    \/ RestoreRemove(t)
    \/ DropVec(t)
    \/ Return(t)

\* Callers that respect the ownership contract.
Spec == Init /\ [][Next]_vars

NextMisuse == Next \/ \E t \in Threads : MisuseFree(t)

\* Callers that may also free addresses they do not own.
SpecMisuse == Init /\ [][NextMisuse]_vars

\* ------------------------------------------------------------------ claims
\* The step is taken by thread t (every action moves its thread's pc).
StepBy(t) == pc'[t] # pc[t]

RegisteringOps == ArrayOps \cup {"synthesis"}

\* C1: round-trip law.  When a registering entry point has finished with
\* Ok, the registry maps the returned address to exactly the logical length
\* of the buffer the engine produced; and the Vec that restore_vec rebuilds
\* from a pointer the caller owns has the address it was given, the length
\* of the original buffer, no spare capacity, and the original contents.
C1_RoundTrip ==
  \A t \in Threads :
    /\ (pc[t] = "ret" /\ op[t] \in RegisteringOps /\ result[t] = "Ok")
         => /\ outData[t] \in DOMAIN registry
            /\ registry[outData[t]] = Len(orig[t])
    /\ pc[t] = "restored"
         => /\ vec[t].ptr = freeing[t].ptr
            /\ vec[t].len = Len(freeing[t].data)
            /\ vec[t].cap = vec[t].len
            /\ VecData(vec[t]) = freeing[t].data

\* A non-empty buffer that the engine returned with spare capacity has
\* been rebuilt by restore_vec.
C1_Witness ==
  \E t \in Threads :
    pc[t] = "restored" /\ vec[t].len = MaxLen /\ vec[t].ptr \in HeapAddrs

\* C2: table integrity.  A buffer about to be inserted never has the
\* address of a buffer that is still registered, and the duplicate-insert
\* assertion of leak_vec_and_store_length never fires, for callers that free
\* each returned pointer at most once.
C2_TableIntegrity ==
  \A t \in Threads :
    /\ pc[t] = "leak_insert" => vec[t].ptr \notin DOMAIN registry
    /\ panic[t] # "duplicate"

\* C3: reclaiming an address that is not in the registry is fatal.  The
\* step of restore_vec that finds no entry panics, changes neither the
\* registry nor the heap, rebuilds no Vec and sets no return value; and a
\* panicked call never resumes, so it never returns.
C3_UnregisteredReclaimIsFatal ==
  [][\A t \in Threads :
       /\ (pc[t] = "restore_remove" /\ StepBy(t) /\ freeing[t].ptr \notin DOMAIN registry)
            => /\ pc'[t] = "panicked"
               /\ panic'[t] = "unmanaged"
               /\ registry' = registry
               /\ heap' = heap
               /\ vec'[t] = vec[t]
               /\ ret'[t] = "none"
       /\ pc[t] = "panicked"
            => /\ pc'[t] = "panicked"
               /\ vec'[t] = vec[t]
               /\ ret'[t] = "none"]_vars

\* A free function panicked on an unregistered address while another
\* thread's buffer stayed registered.
C3_Witness ==
  \E t \in Threads :
    panic[t] = "unmanaged" /\ op[t] \in FreeOps /\ DOMAIN registry # {}

\* C4: the wav buffer of a successful voicevox_synthesis is registered.
\* When synthesis has finished with Ok, the address in output_wav is a key
\* of the registry mapped to the length in output_wav_length; and
\* voicevox_wav_free on a wav the caller owns always finds its entry.
C4_SynthesisWavRegistered ==
  \A t \in Threads :
    /\ (pc[t] = "ret" /\ op[t] = "synthesis" /\ result[t] = "Ok")
         => /\ outData[t] \in DOMAIN registry
            /\ registry[outData[t]] = outLen[t]
    /\ (pc[t] = "restore_remove" /\ op[t] = "wav_free")
         => freeing[t].ptr \in DOMAIN registry

\* voicevox_synthesis has finished with Ok and a non-empty wav.
C4_Witness ==
  \E t \in Threads :
    pc[t] = "ret" /\ op[t] = "synthesis" /\ result[t] = "Ok" /\ outLen[t] > 0

\* C5: mutual exclusion on the engine.  At most one thread is executing an
\* engine operation, and that thread holds the engine guard.
C5_EngineMutualExclusion ==
  \A t, u \in Threads :
    /\ pc[t] = "engine" => internalHolder = t
    /\ (pc[t] = "engine" /\ pc[u] = "engine") => t = u

\* One thread executes an engine operation while another waits for the guard.
C5_Witness ==
  \E t, u \in Threads : t # u /\ pc[t] = "engine" /\ pc[u] = "lock"

\* C6: for predict_duration, predict_intonation, decode and tts, the step
\* that completes the call with Ok adds exactly one registry entry, whose
\* address and length are the ones written to the output slots; and a
\* registry free function on a pointer the caller owns removes exactly that
\* entry and then returns normally.
C6_ArrayResultRegisteredOnce ==
  [][\A t \in Threads :
       /\ (StepBy(t) /\ pc'[t] = "ret" /\ op[t] \in ArrayOps /\ result'[t] = "Ok")
            => /\ outData'[t] \notin DOMAIN registry
               /\ registry' = HashMapInsert(registry, outData'[t], outLen'[t])
       /\ (pc[t] = "ret" /\ op[t] \in ArrayOps /\ result[t] = "Ok")
            => /\ outData[t] \in DOMAIN registry
               /\ registry[outData[t]] = outLen[t]
       /\ (StepBy(t) /\ pc[t] = "restore_remove" /\ op[t] \in FreeOps)
            => /\ freeing[t].ptr \in DOMAIN registry
               /\ DOMAIN registry' = DOMAIN registry \ {freeing[t].ptr}
               /\ \A a \in DOMAIN registry' : registry'[a] = registry[a]
               /\ pc'[t] = "restored"
       /\ (StepBy(t) /\ pc[t] = "restored")
            => pc'[t] = "ret" /\ ret'[t] = "void"]_vars

\* A free function has returned normally while another buffer is registered.
C6_Witness ==
  \E t \in Threads :
    pc[t] = "ret" /\ op[t] \in FreeOps /\ ret[t] = "void" /\ DOMAIN registry # {}

\* C7: no step of voicevox_audio_query or voicevox_audio_query_json_free
\* changes the registry, takes its lock or poisons it.
C7_AudioQueryLeavesRegistry ==
  [][\A t \in Threads :
       (StepBy(t) /\ ({op[t], op'[t]} \cap {"audio_query", "audio_query_json_free"} # {}))
         => /\ registry' = registry
            /\ regHolder' = regHolder
            /\ regPoisoned' = regPoisoned]_vars

\* A json buffer has been released while a buffer is registered.
C7_Witness ==
  \E t \in Threads :
    pc[t] = "ret" /\ op[t] = "audio_query_json_free" /\ DOMAIN registry # {}

\* C8: a text argument of voicevox_tts or voicevox_synthesis that is not
\* valid UTF-8 ends the call with the invalid-UTF-8 result code: the call
\* is never at the engine guard or in the engine, its output slots stay
\* unwritten, and none of its steps changes the registry or the guard.
C8_InvalidUtf8FailsBeforeEngine ==
  [][\A t \in Threads :
       /\ (op[t] \in {"tts", "synthesis"} /\ ~IsValidUtf8(text[t]))
            => /\ pc[t] = "ret"
               /\ result[t] = "InvalidUtf8Input"
               /\ ret[t] = "VOICEVOX_RESULT_INVALID_UTF8_INPUT_ERROR"
               /\ internalHolder # t
               /\ outData[t] = Unwritten /\ outLen[t] = Unwritten
       /\ (StepBy(t) /\ \/ op[t] \in {"tts", "synthesis"} /\ ~IsValidUtf8(text[t])
                        \/ op'[t] \in {"tts", "synthesis"} /\ ~IsValidUtf8(text'[t]))
            => /\ registry' = registry
               /\ internalHolder' = internalHolder
               /\ heap' = heap]_vars

\* Both entry points have rejected an invalid text.
C8_Witness ==
  \E t, u \in Threads :
    /\ pc[t] = "ret" /\ op[t] = "tts" /\ ~IsValidUtf8(text[t])
    /\ pc[u] = "ret" /\ op[u] = "synthesis" /\ ~IsValidUtf8(text[u])

\* C9: the error mapper is total and fails closed.  Every entry point that
\* returns a result code returns VOICEVOX_RESULT_OK for Ok and, for an
\* error, the one code of its variant, which is never the success code; and
\* every code returned has a message.
C9_ErrorMapperTotal ==
  \A t \in Threads :
    /\ (pc[t] = "ret" /\ op[t] \in EngineOps \ ValueOps)
         => /\ result[t] \in ErrorVariants \cup {"Ok"}
            /\ ret[t] \in ResultCodes
            /\ (ret[t] = "VOICEVOX_RESULT_OK") = (result[t] = "Ok")
            /\ result[t] = "NotLoadedOpenjtalkDict"
                 => ret[t] = "VOICEVOX_RESULT_NOT_LOADED_OPENJTALK_DICT_ERROR"
            /\ result[t] = "LoadModel" => ret[t] = "VOICEVOX_RESULT_LOAD_MODEL_ERROR"
            /\ result[t] = "GetSupportedDevices"
                 => ret[t] = "VOICEVOX_RESULT_GET_SUPPORTED_DEVICES_ERROR"
            /\ error_result_to_message(ret[t]) # ""
    /\ (pc[t] = "ret" /\ op[t] = "error_result_to_message") => ret[t] # ""

\* voicevox_load_model has returned the code of a model-load failure.
C9_Witness ==
  \E t \in Threads :
    pc[t] = "ret" /\ op[t] = "load_model" /\ result[t] = "LoadModel"

\* C10: whenever an entry point is about to return or has returned, its
\* thread holds neither the engine guard nor the registry lock.
C10_GuardsReleasedOnExit ==
  \A t \in Threads :
    pc[t] \in {"ret", "idle"} => internalHolder # t /\ regHolder # t

\* An engine operation has failed and its entry point is about to return.
C10_Witness ==
  \E t \in Threads :
    pc[t] = "ret" /\ op[t] \in ArrayOps /\ result[t] \in EngineErrors

\* --------------------------------------------------------------- fairness
\* The steps of restore_vec and of the registry's critical sections.  The
\* critical sections are straight-line code, so a scheduled thread always
\* leaves them; a thread waiting for the registry mutex gets it if the mutex
\* is free again and again.
RegistrySection(t) == LeakInsert(t) \/ RestoreRemove(t) \/ DropVec(t)

\* Every step a thread takes inside an entry point, from the wait for the
\* engine guard to the return.
ThreadStep(t) ==
  \/ lock_internal(t)
  \/ EngineResultOp(t)
  \/ EngineValueOp(t)
  \/ EngineArrayOp(t)
  \/ EngineAudioQuery(t)
  \/ write_json_to_ptr(t)
  \/ write_wav_to_ptr(t)
  \/ LeakShrink(t)
  \/ LeakLock(t)
  \/ LeakInsert(t)
  \/ RestoreLock(t)
  \/ RestoreRemove(t)
  \/ DropVec(t)
  \/ Return(t)

\* Fair scheduling of the registry's critical sections and of the free
\* functions only: nothing forces an engine operation, or the wait for the
\* engine guard, to end.
SpecFreeFair ==
  /\ Init /\ [][Next]_vars
  /\ \A t \in Threads : WF_vars(RegistrySection(t)) /\ SF_vars(RestoreLock(t))

\* Fair scheduling of threads: a thread that can keep taking a step takes
\* it, and a thread that waits for a mutex gets it if the mutex is free again
\* and again.  Entry into an entry point is the caller's choice and is not
\* forced.
SpecFair ==
  /\ Init /\ [][Next]_vars
  /\ \A t \in Threads :
       /\ WF_vars(ThreadStep(t))
       /\ SF_vars(lock_internal(t)) /\ SF_vars(LeakLock(t)) /\ SF_vars(RestoreLock(t))

\* C11: reclamation stays available while the engine is busy.  A registry
\* free function never waits for, takes or holds the engine guard; and a free
\* function that is running while another thread is inside an engine operation
\* reaches its return even if that engine operation never ends (no fairness
\* is assumed for engine operations).
C11_FreeCompletesWhileEngineBusy ==
  \A t \in Threads :
    /\ [](op[t] \in FreeOps => pc[t] \notin {"lock", "engine"} /\ internalHolder # t)
    /\ \A u \in Threads \ {t} :
         [](op[t] \in FreeOps /\ pc[t] \notin {"idle", "ret"} /\ pc[u] = "engine"
              => <>(pc[t] = "ret" \/ pc[u] # "engine"))

\* A free function is inside restore_vec while another thread is executing
\* an engine operation.
C11_Witness ==
  \E t, u \in Threads :
    op[t] \in FreeOps /\ pc[t] = "restore_remove" /\ pc[u] = "engine"

WaitsForEngine(t) == pc[t] = "lock"
WaitsForRegistry(t) == pc[t] \in {"leak_lock", "restore_lock"}

\* C13: lock ordering.  A thread that tries to acquire the engine guard holds
\* neither lock, and a thread that tries to acquire the registry lock does
\* not hold it already; and no state is a deadlock over the two locks: while
\* the process lives, every thread inside an entry point can take a step, or
\* waits for a lock whose holder can take a step.
C13_LockOrdering ==
  \A t \in Threads :
    /\ WaitsForEngine(t) => regHolder # t /\ internalHolder # t
    /\ WaitsForRegistry(t) => regHolder # t
    /\ pc[t] \notin {"idle", "panicked"} /\ ~aborted
         => \/ ENABLED ThreadStep(t)
            \/ /\ WaitsForEngine(t) /\ internalHolder \in Threads \ {t}
               /\ ENABLED ThreadStep(internalHolder)
            \/ /\ WaitsForRegistry(t) /\ regHolder \in Threads \ {t}
               /\ ENABLED ThreadStep(regHolder)

\* Both locks have been contended: one thread waits for the registry lock,
\* which the other thread holds, after each of them went through the engine
\* guard.
C13_Witness ==
  \E t, u \in Threads :
    /\ t # u
    /\ WaitsForRegistry(t) /\ regHolder = u
    /\ op[t] \in ArrayOps /\ op[u] \in ArrayOps

\* C14: termination.  Under fair scheduling, with callers that free each
\* pointer once, every call of every entry point eventually returns.
C14_EveryCallReturns ==
  \A t \in Threads : [](pc[t] \notin {"idle", "ret"} => <>(pc[t] = "ret"))

\* What holds instead: under the same fairness a call returns unless a
\* panic ends it (leak_vec_and_store_length's assertion, lib.rs:63).
ReturnsUnlessPanicked ==
  \A t \in Threads :
    [](pc[t] \notin {"idle", "ret"} => <>(pc[t] \in {"ret", "panicked"} \/ aborted))

\* C15: state unchanged on error.  When the engine operation inside
\* predict_duration, predict_intonation, decode or tts fails, the step that
\* fails goes straight to the return with a non-success code, and neither
\* that step nor any other step of the call changes the registry or writes
\* the output data slot or the output length slot.
C15_EngineErrorLeavesStateUnchanged ==
  [][\A t \in Threads :
       /\ (StepBy(t) /\ pc[t] = "engine" /\ op[t] \in ArrayOps
             /\ result'[t] \in EngineErrors)
            => /\ pc'[t] = "ret"
               /\ ret'[t] \in ResultCodes \ {"VOICEVOX_RESULT_OK"}
               /\ ret'[t] = into_result_code_with_error(result'[t])
       /\ (StepBy(t) /\ op'[t] \in ArrayOps /\ pc'[t] \in {"lock", "engine"})
            => registry' = registry
       /\ (StepBy(t) /\ op[t] \in ArrayOps
             /\ (result'[t] \in EngineErrors \/ result[t] \in EngineErrors))
            => /\ registry' = registry
               /\ outData[t] = Unwritten /\ outData'[t] = Unwritten
               /\ outLen[t] = Unwritten /\ outLen'[t] = Unwritten
               /\ held'[t] = held[t]]_vars

\* An array-returning entry point is returning an engine error while a buffer
\* of an earlier call is registered.
C15_Witness ==
  \E t \in Threads :
    /\ pc[t] = "ret" /\ op[t] \in ArrayOps /\ result[t] \in EngineErrors
    /\ DOMAIN registry # {}

\* C16: registry entries are removed only by reclamation.  A step of an
\* entry point other than the four registry free functions leaves every
\* existing registry entry in place with its length; a step of finalize or of
\* initialize leaves the registry unchanged; so every buffer a caller owns
\* stays registered with its length, and the free function that reclaims it
\* after a finalize finds its entry and removes it.
C16_OnlyReclamationRemoves ==
  [][\A t \in Threads :
       /\ (StepBy(t) /\ op[t] \notin FreeOps /\ op'[t] \notin FreeOps)
            => \A a \in DOMAIN registry :
                 a \in DOMAIN registry' /\ registry'[a] = registry[a]
       /\ (StepBy(t) /\ (op[t] \in {"finalize", "initialize"}
                          \/ op'[t] \in {"finalize", "initialize"}))
            => registry' = registry
       /\ \A h \in held[t] : h.ptr \in DOMAIN registry /\ registry[h.ptr] = h.len
       /\ (StepBy(t) /\ pc[t] = "restore_remove" /\ op[t] \in FreeOps)
            => /\ freeing[t].ptr \in DOMAIN registry
               /\ freeing[t].ptr \notin DOMAIN registry']_vars

\* A caller that owns a registered buffer is returning from finalize.
C16_Witness ==
  \E t \in Threads :
    /\ pc[t] = "ret" /\ op[t] = "finalize"
    /\ held[t] # {} /\ \A h \in held[t] : h.ptr \in DOMAIN registry

\* The threads whose engine result at address a is on its way into the
\* registry, and the threads that have taken a out of the registry and have
\* not yet released it.
Registering(a) ==
  {t \in Threads : pc[t] \in {"leak", "leak_lock", "leak_insert", "write_wav"}
                   /\ vec[t].ptr = a}
Reclaiming(a) == {t \in Threads : pc[t] = "restored" /\ vec[t].ptr = a}

\* C17: reclaim ordering.  restore_vec removes the address from the registry
\* and releases the registry lock before the allocation is released.  So
\* every live allocation of the Rust allocator is in exactly one of three
\* conditions: on its way into the registry in one thread, registered, or
\* being reclaimed by exactly one thread; every registered allocator address
\* is a live allocation; and a register that was given an address by the
\* allocator never finds an entry for it.
C17_ReclaimOrdering ==
  /\ \A a \in HeapAddrs :
       /\ heap[a].kind = "rust"
            => \/ /\ a \in DOMAIN registry
                  /\ Registering(a) = {} /\ Reclaiming(a) = {}
               \/ /\ a \notin DOMAIN registry
                  /\ Cardinality(Registering(a)) + Cardinality(Reclaiming(a)) = 1
       /\ a \in DOMAIN registry => heap[a].kind = "rust"
  /\ \A t \in Threads :
       /\ pc[t] = "restored" => regHolder # t
       /\ pc[t] = "restored" /\ vec[t].ptr \in HeapAddrs => heap[vec[t].ptr].kind = "rust"
       /\ pc[t] = "leak_insert" /\ vec[t].ptr \in HeapAddrs
            => vec[t].ptr \notin DOMAIN registry

\* A thread registers a buffer at the address another thread's reclamation
\* has just released: the address is registered again while the reclaiming
\* call is still returning.
C17_Witness ==
  \E t, u \in Threads :
    /\ t # u
    /\ pc[t] = "ret" /\ op[t] \in FreeOps /\ freeing[t].ptr \in HeapAddrs
    /\ pc[u] = "leak_insert" /\ vec[u].ptr = freeing[t].ptr

====
